---- MODULE Spec2Model ----
(***************************************************************************)
(* A model of neqo-common/src/timer.rs: Timer<T>, a hashed timing wheel.   *)
(* Instants and Durations are integers (one unit is one clock quantum).    *)
(* A Vec<Vec<TimerItem<T>>> is a function from the bucket indices          *)
(* 0..Capacity-1 to sequences of TimerItem records; positions inside a     *)
(* bucket are Rust's 0-based indices (At, insert, vec_remove, split_off).  *)
(* An Option<T> is a sequence of length at most one.                        *)
(***************************************************************************)
EXTENDS Integers, Sequences, FiniteSets, Bags, TLC

\* ---------------------------------------------------------------- bounds
\* granularity and capacity handed to Timer::new
Granularity == 2
Capacity == 2
\* the most entries the wheel stores at once
MaxStored == 2
\* the payloads T ranges over
Payloads == {1, 2}

\* Timer::span
span == Granularity * Capacity
\* short_span of Timer::add
short_span == span - Granularity
\* the instants handed to the operations: 0 .. one past the fast-jump threshold
MaxTime == span + short_span + 1
Times == 0..MaxTime
\* the predicates handed to remove: a selector is the set of payloads it accepts
Selectors == (SUBSET Payloads) \ {{}}

\* ------------------------------------------------------------ Vec helpers
TimerItem(time, item) == [time |-> time, item |-> item]
Buckets == 0..(Capacity - 1)
\* Vec::resize_with(capacity, Default::default)
empty_items == [i \in Buckets |-> <<>>]
At(v, i) == v[i + 1]
\* Vec::insert(j, e)
insert(v, j, e) == SubSeq(v, 1, j) \o <<e>> \o SubSeq(v, j + 1, Len(v))
\* Vec::remove(idx): the vector without the element at idx
vec_remove(v, idx) == SubSeq(v, 1, idx) \o SubSeq(v, idx + 2, Len(v))
\* Vec::split_off(at): [head kept in place, tail returned]
split_off(v, at) == [head |-> SubSeq(v, 1, at), tail |-> SubSeq(v, at + 1, Len(v))]

\* a search that reports the index of a hit, and 0 as the insertion point
binary_search_err_zero(v, time) ==
  LET hits == {j \in 0..(Len(v) - 1) : At(v, j).time = time}
  IN  IF hits # {}
      THEN {[ok |-> TRUE, idx |-> j] : j \in hits}
      ELSE {[ok |-> FALSE, idx |-> 0]}

\* slice::binary_search_by_key(&time, TimerItem::time) on a sorted bucket:
\* Ok(j) for any one j with v[j].time = time (which one is unspecified),
\* Err(j) with j the insertion point when there is none.
binary_search_by_key(v, time) ==
  LET hits == {j \in 0..(Len(v) - 1) : At(v, j).time = time}
  IN  IF hits # {}
      THEN {[ok |-> TRUE, idx |-> j] : j \in hits}
      ELSE {[ok |-> FALSE,
             idx |-> Cardinality({j \in 0..(Len(v) - 1) : At(v, j).time < time})]}

\* Iterator::flatten over a sequence of buckets
RECURSIVE flatten(_)
flatten(bs) == IF bs = <<>> THEN <<>> ELSE Head(bs) \o flatten(Tail(bs))

\* .map(get_item)
get_item(x) == x.item
map_get_item(s) == [i \in 1..Len(s) |-> get_item(s[i])]

\* ------------------------------------------------------------------ state
VARIABLES items, now, cursor, failed, iter, added, yielded, prev_until
vars == <<items, now, cursor, failed, iter, added, yielded, prev_until>>

\* the wheel as one value
Wheel == [items |-> items, now |-> now, cursor |-> cursor]

\* Timer::new(now = 0, Granularity, Capacity)
new == [items |-> empty_items, now |-> 0, cursor |-> 0]

\* an outcome of one call: the wheel, the returned Option, the drained TimerItems
\* (take_until), whether an assertion fired, and the number of tick() calls made
Outcome(w, ret, taken, panic, ticks) ==
  [w |-> w, ret |-> ret, taken |-> taken, panic |-> panic, ticks |-> ticks]

\* ---------------------------------------------------------- the operations
\* Timer::next_time
RECURSIVE next_time_from(_, _)
next_time_from(w, i) ==
  IF i >= Capacity THEN <<>>
  ELSE LET idx == (w.cursor + i) % Capacity
       IN  IF w.items[idx] # <<>> THEN <<At(w.items[idx], 0).time>>
           ELSE next_time_from(w, i + 1)
\* a scan that starts at bucket 0 instead of the cursor
next_time_from_zero(w) == next_time_from([w EXCEPT !.cursor = 0], 0)
next_time(w) == next_time_from(w, 0)

\* a tick that moves the clock and leaves the cursor where it is
tick_keep_cursor(w) ==
  IF w.items[w.cursor] # <<>>
  THEN [w |-> w, panic |-> TRUE]
  ELSE [w |-> [w EXCEPT !.now = @ + Granularity], panic |-> FALSE]

\* a tick without its assertion: it slides over a bucket that is not empty
tick_unchecked(w) ==
  [w |-> [w EXCEPT !.now = @ + Granularity, !.cursor = (@ + 1) % Capacity],
   panic |-> FALSE]

\* Timer::tick: [w, panic]; the assert fires when the cursor bucket is not empty
tick(w) ==
  IF w.items[w.cursor] # <<>>
  THEN [w |-> w, panic |-> TRUE]
  ELSE [w |-> [w EXCEPT !.now = @ + Granularity, !.cursor = (@ + 1) % Capacity],
        panic |-> FALSE]

\* a delta without its debug_assert, in every build
delta_unchecked(w, time) ==
  LET subs == IF time >= w.now
              THEN {[d |-> time - w.now, panic |-> FALSE]}
              ELSE {[d |-> 0, panic |-> FALSE], [d |-> 0, panic |-> TRUE]}
  IN  {IF s.panic THEN [val |-> 0, panic |-> TRUE]
       ELSE [val |-> s.d \div Granularity, panic |-> FALSE]
       : s \in subs}

\* Timer::delta: the set of [val, panic] a build can produce.
\* `time - self.now` with time < now panics (Instant subtraction before Rust 1.60)
\* or saturates to zero (since); debug_assert!(delta < len) fires in a build with
\* debug assertions and is compiled out otherwise.
delta(w, time) ==
  LET subs == IF time >= w.now
              THEN {[d |-> time - w.now, panic |-> FALSE]}
              ELSE {[d |-> 0, panic |-> FALSE], [d |-> 0, panic |-> TRUE]}
      quot(s) == s.d \div Granularity
  IN  UNION {IF s.panic THEN {[val |-> 0, panic |-> TRUE]}
             ELSE IF quot(s) < Capacity THEN {[val |-> quot(s), panic |-> FALSE]}
             ELSE {[val |-> quot(s), panic |-> FALSE], [val |-> quot(s), panic |-> TRUE]}
             : s \in subs}

\* an add that never ticks
tick_while_never(w, time, n) == [w |-> w, panic |-> FALSE, ticks |-> n]

\* the `while time >= self.now + self.span() { self.tick(); }` loop of add
RECURSIVE tick_while(_, _, _)
tick_while(w, time, n) ==
  IF time >= w.now + span
  THEN LET r == tick(w)
       IN  IF r.panic THEN [w |-> w, panic |-> TRUE, ticks |-> n]
           ELSE tick_while(r.w, time, n + 1)
  ELSE [w |-> w, panic |-> FALSE, ticks |-> n]

\* a fast jump that lands the window two spans before time
fast_jump_two_spans_back(w, time) ==
  IF time >= w.now + span + short_span
  THEN IF \E i \in Buckets : w.items[i] # <<>>
       THEN [w |-> w, panic |-> TRUE]
       ELSE [w |-> [w EXCEPT !.now = time - span - span, !.cursor = 0], panic |-> FALSE]
  ELSE [w |-> w, panic |-> FALSE]

\* the fast jump of add: [w, panic]
fast_jump(w, time) ==
  IF time >= w.now + span + short_span
  THEN IF \E i \in Buckets : w.items[i] # <<>>
       THEN [w |-> w, panic |-> TRUE]
       ELSE [w |-> [w EXCEPT !.now = time - short_span, !.cursor = 0], panic |-> FALSE]
  ELSE [w |-> w, panic |-> FALSE]

\* an insertion into the bucket counted from index 0 instead of the cursor
add_insert_no_cursor(w, time, item, ticks) ==
  UNION {IF d.panic THEN {Outcome(w, <<>>, <<>>, TRUE, ticks)}
         ELSE LET bucket == d.val % Capacity
              IN  {Outcome([w EXCEPT !.items[bucket] =
                                     insert(@, ins.idx, TimerItem(time, item))],
                           <<>>, <<>>, FALSE, ticks)
                   : ins \in binary_search_by_key(w.items[bucket], time)}
         : d \in delta(w, time)}

\* the ordered insertion of add, lines 120-125
add_insert(w, time, item, ticks) ==
  UNION {IF d.panic THEN {Outcome(w, <<>>, <<>>, TRUE, ticks)}
         ELSE LET bucket == (w.cursor + d.val) % Capacity
              IN  {Outcome([w EXCEPT !.items[bucket] =
                                     insert(@, ins.idx, TimerItem(time, item))],
                           <<>>, <<>>, FALSE, ticks)
                   : ins \in binary_search_by_key(w.items[bucket], time)}
         : d \in delta(w, time)}

\* Timer::add: the set of outcomes
add(w, time, item) ==
  IF time < w.now THEN {Outcome(w, <<>>, <<>>, TRUE, 0)}
  ELSE LET j == fast_jump(w, time)
       IN  IF j.panic THEN {Outcome(w, <<>>, <<>>, TRUE, 0)}
           ELSE LET r == tick_while(j.w, time, 0)
                IN  IF r.panic THEN {Outcome(r.w, <<>>, <<>>, TRUE, r.ticks)}
                    ELSE add_insert(r.w, time, item, r.ticks)

\* a backward scan that does not stop where the due time changes
RECURSIVE scan_back_any_time(_, _, _, _)
scan_back_any_time(v, idx, time, selector) ==
  IF idx < 0 THEN <<>>
  ELSE IF At(v, idx).item \in selector THEN <<idx>>
  ELSE scan_back_any_time(v, idx - 1, time, selector)

\* the backward scan of remove, `for i in 0..=start_index`: the index removed, if any
RECURSIVE scan_back(_, _, _, _)
scan_back(v, idx, time, selector) ==
  IF idx < 0 THEN <<>>
  ELSE IF At(v, idx).time # time THEN <<>>
  ELSE IF At(v, idx).item \in selector THEN <<idx>>
  ELSE scan_back(v, idx - 1, time, selector)

\* the forward scan of remove, `for i in 1..(len - start_index)`
RECURSIVE scan_forward(_, _, _, _)
scan_forward(v, idx, time, selector) ==
  IF idx >= Len(v) THEN <<>>
  ELSE IF At(v, idx).time # time THEN <<>>
  ELSE IF At(v, idx).item \in selector THEN <<idx>>
  ELSE scan_forward(v, idx + 1, time, selector)

\* a search that scans backwards only
remove_from_back_only(v, start_index, time, selector) ==
  scan_back(v, start_index, time, selector)

\* remove once the binary search has hit start_index: backwards, then forwards
remove_from(v, start_index, time, selector) ==
  LET back == scan_back(v, start_index, time, selector)
  IN  IF back # <<>> THEN back
      ELSE scan_forward(v, start_index + 1, time, selector)

\* Timer::remove: the set of outcomes
remove(w, time, selector) ==
  UNION {IF d.panic THEN {Outcome(w, <<>>, <<>>, TRUE, 0)}
         ELSE LET bucket == (w.cursor + d.val) % Capacity
                  v == w.items[bucket]
              IN  {IF ~s.ok THEN Outcome(w, <<>>, <<>>, FALSE, 0)
                   ELSE LET hit == remove_from(v, s.idx, time, selector)
                        IN  IF hit = <<>> THEN Outcome(w, <<>>, <<>>, FALSE, 0)
                            ELSE Outcome([w EXCEPT !.items[bucket] = vec_remove(v, hit[1])],
                                         <<At(v, hit[1]).item>>, <<>>, FALSE, 0)
                   : s \in binary_search_by_key(v, time)}
         : d \in delta(w, time)}

\* a loop that ticks as soon as until has reached now
RECURSIVE take_next_loop_tick_early(_, _, _)
take_next_loop_tick_early(w, until, n) ==
  LET v == w.items[w.cursor]
  IN  IF v # <<>> /\ At(v, 0).time <= until
      THEN Outcome([w EXCEPT !.items[w.cursor] = vec_remove(v, 0)],
                   <<At(v, 0).item>>, <<>>, FALSE, n)
      ELSE IF until >= w.now
      THEN LET r == tick(w)
           IN  IF r.panic THEN Outcome(w, <<>>, <<>>, TRUE, n)
               ELSE take_next_loop_tick_early(r.w, until, n + 1)
      ELSE Outcome(w, <<>>, <<>>, FALSE, n)

\* a loop that pops the last entry of the cursor bucket instead of the first
RECURSIVE take_next_loop_pop_last(_, _, _)
take_next_loop_pop_last(w, until, n) ==
  LET v == w.items[w.cursor]
  IN  IF v # <<>> /\ At(v, 0).time <= until
      THEN Outcome([w EXCEPT !.items[w.cursor] = vec_remove(v, Len(v) - 1)],
                   <<At(v, Len(v) - 1).item>>, <<>>, FALSE, n)
      ELSE IF until > w.now + Granularity
      THEN LET r == tick(w)
           IN  IF r.panic THEN Outcome(w, <<>>, <<>>, TRUE, n)
               ELSE take_next_loop_pop_last(r.w, until, n + 1)
      ELSE Outcome(w, <<>>, <<>>, FALSE, n)

\* Timer::take_next: the loop, n the ticks made so far
RECURSIVE take_next_loop(_, _, _)
take_next_loop(w, until, n) ==
  LET v == w.items[w.cursor]
  IN  IF v # <<>> /\ At(v, 0).time <= until
      THEN Outcome([w EXCEPT !.items[w.cursor] = vec_remove(v, 0)],
                   <<At(v, 0).item>>, <<>>, FALSE, n)
      ELSE IF until > w.now + Granularity
      THEN LET r == tick(w)
           IN  IF r.panic THEN Outcome(w, <<>>, <<>>, TRUE, n)
               ELSE take_next_loop(r.w, until, n + 1)
      ELSE Outcome(w, <<>>, <<>>, FALSE, n)
take_next(w, until) == {take_next_loop(w, until, 0)}

\* a full drain that moves the clock on by one span instead of to until
take_until_full_one_span(w, until) ==
  LET old == [i \in 1..Capacity |-> w.items[i - 1]]
      w1 == [items |-> empty_items, now |-> w.now + span, cursor |-> 0]
      cut == split_off(old, w1.cursor)
  IN  Outcome(w1, <<>>, flatten(cut.tail \o cut.head), FALSE, 0)

\* a full drain that yields only the buckets from the old cursor to the end
take_until_full_tail_only(w, until) ==
  LET old == [i \in 1..Capacity |-> w.items[i - 1]]
      w1 == [items |-> empty_items, now |-> until, cursor |-> 0]
      cut == split_off(old, w.cursor)
  IN  Outcome(w1, <<>>, flatten(cut.tail), FALSE, 0)

\* the full drain of take_until, lines 183-193: self.cursor is reset before
\* items.split_off(self.cursor) reads it
take_until_full(w, until) ==
  LET old == [i \in 1..Capacity |-> w.items[i - 1]]
      w1 == [items |-> empty_items, now |-> until, cursor |-> 0]
      cut == split_off(old, w1.cursor)
  IN  Outcome(w1, <<>>, flatten(cut.tail \o cut.head), FALSE, 0)

\* `for _ in 0..delta`: move the cursor bucket out and tick, k times
RECURSIVE whole_buckets(_, _, _, _)
whole_buckets(w, k, buckets, n) ==
  IF k = 0 THEN [w |-> w, buckets |-> buckets, panic |-> FALSE, ticks |-> n]
  ELSE LET r == tick([w EXCEPT !.items[w.cursor] = <<>>])
       IN  IF r.panic THEN [w |-> r.w, buckets |-> buckets, panic |-> TRUE, ticks |-> n]
           ELSE whole_buckets(r.w, k - 1, Append(buckets, w.items[w.cursor]), n + 1)

\* `while m < bucket.len() && bucket[m].time == until { m += 1; }`
RECURSIVE skip_equal(_, _, _)
skip_equal(bucket, m, until) ==
  IF m < Len(bucket) /\ At(bucket, m).time = until
  THEN skip_equal(bucket, m + 1, until) ELSE m

\* a cut at the index the search hit, without advancing past the equal entries
last_idx_no_skip(bucket, until) ==
  {s.idx : s \in binary_search_by_key(bucket, until)}

\* last_idx of take_until, lines 211-221
last_idx(bucket, until) ==
  {IF s.ok THEN skip_equal(bucket, s.idx, until) ELSE s.idx
   : s \in binary_search_by_key(bucket, until)}

\* a split that yields the head of the boundary bucket before the whole buckets
split_last_head_first(r, until) ==
  {LET cut == split_off(r.w.items[r.w.cursor], at)
   IN  Outcome([r.w EXCEPT !.items[r.w.cursor] = cut.tail], <<>>,
               flatten(<<cut.head>> \o r.buckets), FALSE, r.ticks)
   : at \in last_idx(r.w.items[r.w.cursor], until)}

\* a split that yields a copy of the head and leaves the bucket as it was
split_last_keep(r, until) ==
  {LET cut == split_off(r.w.items[r.w.cursor], at)
   IN  Outcome(r.w, <<>>, flatten(Append(r.buckets, cut.head)), FALSE, r.ticks)
   : at \in last_idx(r.w.items[r.w.cursor], until)}

\* the split of the boundary bucket, lines 210-223
split_last(r, until) ==
  {LET cut == split_off(r.w.items[r.w.cursor], at)
   IN  Outcome([r.w EXCEPT !.items[r.w.cursor] = cut.tail], <<>>,
               flatten(Append(r.buckets, cut.head)), FALSE, r.ticks)
   : at \in last_idx(r.w.items[r.w.cursor], until)}

\* the partial drain of take_until, lines 195-226
take_until_partial(w, until) ==
  UNION {IF d.panic THEN {Outcome(w, <<>>, <<>>, TRUE, 0)}
         ELSE LET r == whole_buckets(w, d.val, <<>>, 0)
              IN  IF r.panic THEN {Outcome(r.w, <<>>, <<>>, TRUE, r.ticks)}
                  ELSE split_last(r, until)
         : d \in delta(w, until)}

\* Timer::take_until: the set of outcomes; taken is what the returned iterator owns
take_until(w, until) ==
  IF until >= w.now + span THEN {take_until_full(w, until)}
  ELSE take_until_partial(w, until)

\* ------------------------------------------------------- the state machine
\* the entries a wheel stores, as a sequence in bucket-index order, and how many
Stored(w) == flatten([i \in 1..Capacity |-> w.items[i - 1]])
StoredCount(w) == Len(Stored(w))

Range(s) == {s[i] : i \in DOMAIN s}
\* the multiset of the elements of a sequence
SeqToBag(s) == [e \in Range(s) |-> Cardinality({i \in DOMAIN s : s[i] = e})]

\* no iterator returned by take_until is alive
NoIter == [live |-> FALSE, rest |-> <<>>, consumed |-> 0, until |-> 0, wheel |-> new]

\* the iterator take_until(until) returns: it owns the payloads of o.taken;
\* until and wheel remember the call and the wheel it left behind
returned_iter(until, o) ==
  [live |-> ~o.panic, rest |-> map_get_item(o.taken), consumed |-> 0,
   until |-> until, wheel |-> o.w]

\* the wheel after a call that ended with outcome o (returned or panicked)
Commit(o) ==
  /\ items' = o.w.items
  /\ now' = o.w.now
  /\ cursor' = o.w.cursor
  /\ failed' = o.panic

Init ==
  /\ items = new.items
  /\ now = new.now
  /\ cursor = new.cursor
  /\ failed = FALSE
  /\ iter = NoIter
  /\ added = EmptyBag
  /\ yielded = EmptyBag
  /\ prev_until = -1

\* a call the owner of the wheel may make: no panic so far, and the iterator of
\* the last take_until is gone (it owns the buckets moved out of the wheel and
\* never reads the wheel again, so a call made while it is alive would see the
\* same wheel). next_time and span only read the wheel: they are operators, not
\* actions.
Idle == ~failed /\ ~iter.live

\* t.add(time, item)
AddCall(time, item) ==
  /\ Idle
  /\ StoredCount(Wheel) < MaxStored
  /\ \E o \in add(Wheel, time, item) : Commit(o)

Add ==
  /\ \E time \in Times, item \in Payloads : AddCall(time, item)
  /\ UNCHANGED <<iter, added, yielded, prev_until>>

Remove ==
  /\ Idle
  /\ \E time \in Times, selector \in Selectors :
       \E o \in remove(Wheel, time, selector) : Commit(o)
  /\ UNCHANGED <<iter, added, yielded, prev_until>>

TakeNext ==
  /\ Idle
  /\ \E until \in Times :
       \E o \in take_next(Wheel, until) : Commit(o)
  /\ UNCHANGED <<iter, added, yielded, prev_until>>

\* take_until returns the iterator; the wheel is changed by the call itself
TakeUntil ==
  /\ Idle
  /\ \E until \in Times :
       \E o \in take_until(Wheel, until) :
         /\ Commit(o)
         /\ iter' = returned_iter(until, o)
  /\ UNCHANGED <<added, yielded, prev_until>>

\* what Iterator::next on the returned iterator does to the wheel: nothing, the
\* iterator owns the buckets that were moved out of it
iter_next(w) == w

\* Iterator::next on the returned iterator: one payload leaves it
IterNext ==
  /\ ~failed
  /\ iter.live
  /\ iter.rest # <<>>
  /\ iter' = [iter EXCEPT !.rest = Tail(@), !.consumed = @ + 1]
  /\ Commit([w |-> iter_next(Wheel), panic |-> FALSE])
  /\ UNCHANGED <<added, yielded, prev_until>>

\* the iterator is dropped, exhausted or not
IterDrop ==
  /\ ~failed
  /\ iter.live
  /\ iter' = NoIter
  /\ UNCHANGED <<items, now, cursor, failed, added, yielded, prev_until>>

Next == Add \/ Remove \/ TakeNext \/ TakeUntil \/ IterNext \/ IterDrop

Spec == Init /\ [][Next]_vars

\* ------------------------------------- adds and drains with a ledger of entries
\* the most entries ever added in a run with the ledger
MaxAdded == 2

\* add(time, i) for the i-th entry, as the tests' with_times() does; the entry is
\* entered in the ledger `added` when the call completes
DrainAdd ==
  /\ BagCardinality(added) < MaxAdded
  /\ \E time \in Times :
       LET item == BagCardinality(added) + 1
       IN  /\ AddCall(time, item)
           /\ added' = IF failed' THEN added
                       ELSE added (+) SetToBag({TimerItem(time, item)})
  /\ UNCHANGED <<iter, yielded, prev_until>>

\* take_until(until).collect() with until above every earlier until; what the
\* call yields is entered in the ledger `yielded`
DrainTakeUntil ==
  /\ Idle
  /\ \E until \in Times :
       /\ until > prev_until
       /\ prev_until' = until
       /\ \E o \in take_until(Wheel, until) :
            /\ Commit(o)
            /\ yielded' = yielded (+) SeqToBag(o.taken)
  /\ UNCHANGED <<iter, added>>

NextDrain == DrainAdd \/ DrainTakeUntil

SpecDrain == Init /\ [][NextDrain]_vars

\* ------------------------------------------------------------ the claims
\* A claim about a call is stated for every call the owner can make in a
\* reachable state: for every argument and for every outcome of the operator
\* that the action of that call applies to the wheel.
\* the multiset of the elements e of s with due(e) = TRUE, due a set of elements
BagOf(s, due) == [e \in Range(s) \cap due |-> Cardinality({i \in DOMAIN s : s[i] = e})]
\* the stored entries due at or before until, and those due after it
DueBy(w, until) == {e \in Range(Stored(w)) : e.time <= until}
DueAfter(w, until) == {e \in Range(Stored(w)) : e.time > until}
\* the due times of a sequence of entries are non-decreasing
TimeOrdered(s) == \A i, j \in DOMAIN s : i < j => s[i].time <= s[j].time
\* the earliest due time among the stored entries of a non-empty wheel
MinDue(w) == CHOOSE t \in {e.time : e \in Range(Stored(w))} :
               \A e \in Range(Stored(w)) : t <= e.time

\* C1: from any reachable wheel and for any until >= now, take_until(until)
\* completes, yields exactly the stored entries due at or before until (as a
\* multiset, each once) and leaves stored exactly the entries due after until.
TakeUntilExact ==
  Idle =>
    \A until \in Times : until >= now =>
      \A o \in take_until(Wheel, until) :
        /\ ~o.panic
        /\ SeqToBag(o.taken) = BagOf(Stored(Wheel), DueBy(Wheel, until))
        /\ SeqToBag(Stored(o.w)) = BagOf(Stored(Wheel), DueAfter(Wheel, until))

\* C1 witness: a partial drain that ticks past a whole bucket and splits the
\* boundary bucket, yielding one of its entries and keeping another
TakeUntilExactWitness ==
  /\ Idle
  /\ \E until \in Times :
       /\ until >= now
       /\ until < now + span
       /\ \E o \in take_until(Wheel, until) :
            /\ o.ticks >= 1
            /\ o.taken # <<>>
            /\ o.w.items[o.w.cursor] # <<>>
            /\ Len(o.w.items[o.w.cursor]) < Len(items[o.w.cursor])

\* C3: next_time() is the minimum due time among the stored entries, and is
\* None exactly when the wheel stores nothing.
NextTimeIsMin ==
  ~failed =>
    next_time(Wheel) = IF StoredCount(Wheel) = 0 THEN <<>> ELSE <<MinDue(Wheel)>>

\* C3 witness: the earliest entry sits in a bucket of higher index than a later
\* one (the window wraps), so the scan has to start at the cursor
NextTimeIsMinWitness ==
  /\ ~failed
  /\ cursor # 0
  /\ \E i, j \in Buckets :
       /\ i < j
       /\ items[i] # <<>>
       /\ items[j] # <<>>
       /\ At(items[j], 0).time < At(items[i], 0).time
       /\ next_time(Wheel) = <<At(items[j], 0).time>>

\* C2: in a run of adds and of take_until calls with strictly increasing until
\* in which no assertion has fired, every entry ever added has been yielded by
\* exactly one take_until call or is still stored: as multisets,
\* added = yielded + stored.
DrainPartition ==
  ~failed => added = yielded (+) SeqToBag(Stored(Wheel))

\* C2 witness: after the window has moved, a drain has yielded an entry while
\* an entry that was added before it is still stored
DrainPartitionWitness ==
  /\ ~failed
  /\ BagCardinality(yielded) >= 1
  /\ StoredCount(Wheel) >= 1
  /\ cursor # 0
  /\ \E e \in BagToSet(yielded), f \in Range(Stored(Wheel)) : e.item > f.item

\* C4: take_next(until) returns None only when no stored entry is due at or
\* before until.
TakeNextFindsDue ==
  Idle =>
    \A until \in Times :
      \A o \in take_next(Wheel, until) :
        (~o.panic /\ o.ret = <<>>) => DueBy(Wheel, until) = {}

\* C5: when take_next(until) returns an item, it is the payload of a stored
\* entry due at or before until whose due time is the minimum among the stored
\* entries, and exactly that one entry has left the wheel.
TakeNextPopsMin ==
  Idle =>
    \A until \in Times :
      \A o \in take_next(Wheel, until) :
        o.ret # <<>> =>
          /\ ~o.panic
          /\ \E e \in Range(Stored(Wheel)) :
               /\ o.ret = <<e.item>>
               /\ e.time <= until
               /\ e.time = MinDue(Wheel)
               /\ SeqToBag(Stored(Wheel)) = SeqToBag(Stored(o.w)) (+) SetToBag({e})

\* C5 witness: take_next ticks to a later bucket and pops the earlier of the two
\* entries there, with a different payload left behind
TakeNextPopsMinWitness ==
  /\ Idle
  /\ \E until \in Times :
       \E o \in take_next(Wheel, until) :
         /\ o.ret # <<>>
         /\ o.ticks >= 1
         /\ StoredCount(o.w) >= 1
         /\ \E e \in Range(Stored(o.w)) : e.item # o.ret[1] /\ e.time <= until

\* remove took exactly the entry at index idx of bucket b out of w, giving w2:
\* that bucket keeps its other entries in order, everything else is as it was
RemovedAt(w, w2, b, idx) ==
  /\ w2.now = w.now
  /\ w2.cursor = w.cursor
  /\ \A c \in Buckets : c # b => w2.items[c] = w.items[c]
  /\ Len(w2.items[b]) = Len(w.items[b]) - 1
  /\ \A k \in 0..(Len(w2.items[b]) - 1) :
       At(w2.items[b], k) = At(w.items[b], IF k < idx THEN k ELSE k + 1)

\* a stored entry with due time `time` whose payload satisfies selector
Matches(w, time, selector) ==
  {e \in Range(Stored(w)) : e.time = time /\ e.item \in selector}

\* what C6 says of one outcome o of remove(time, selector), but for its last
\* conjunct: a returned payload is that of exactly one removed entry, which was
\* due at `time` and satisfies selector; with no match the wheel is unchanged
RemoveEffect(time, selector, o) ==
  /\ o.ret # <<>> =>
       \E b \in Buckets : \E idx \in 0..(Len(items[b]) - 1) :
         /\ At(items[b], idx).time = time
         /\ At(items[b], idx).item \in selector
         /\ o.ret = <<At(items[b], idx).item>>
         /\ RemovedAt(Wheel, o.w, b, idx)
  /\ o.ret = <<>> => o.w = Wheel
  /\ Matches(Wheel, time, selector) = {} => o.ret = <<>>

RECURSIVE RemoveEach(_, _)
RemoveEach(w, es) ==
  IF es = <<>> THEN {w}
  ELSE UNION {IF o.panic \/ o.ret # <<Head(es).item>> THEN {}
              ELSE RemoveEach(o.w, Tail(es))
              : o \in remove(w, Head(es).time, {Head(es).item})}

\* C7: if a stored entry is due at `time`, now <= time < now + span, and its
\* payload satisfies selector, every outcome of remove(time, selector) returns a
\* payload satisfying selector and takes one entry out; and removing each stored
\* entry by its time and identity always succeeds and leaves the wheel empty.
RemoveFindsMatch ==
  Idle =>
    /\ \A time \in Times, selector \in Selectors :
         (now <= time /\ time < now + span /\ Matches(Wheel, time, selector) # {}) =>
           \A o \in remove(Wheel, time, selector) :
             /\ ~o.panic
             /\ o.ret # <<>>
             /\ o.ret[1] \in selector
             /\ StoredCount(o.w) = StoredCount(Wheel) - 1
    /\ RemoveEach(Wheel, Stored(Wheel)) # {}
    /\ \A w \in RemoveEach(Wheel, Stored(Wheel)) : StoredCount(w) = 0

\* C7 witness: a run of two entries with the same due time and different
\* payloads, in a bucket that is not the cursor's, after the window has moved:
\* the search may hit either, and the match is the other one
RemoveFindsMatchWitness ==
  /\ Idle
  /\ cursor # 0
  /\ \E b \in Buckets :
       /\ b # cursor
       /\ Len(items[b]) = 2
       /\ At(items[b], 0).time = At(items[b], 1).time
       /\ At(items[b], 0).item # At(items[b], 1).item
       /\ \A o \in remove(Wheel, At(items[b], 0).time, {At(items[b], 1).item}) :
            o.ret = <<At(items[b], 1).item>>

\* two wheels hold the same entries: the same multiset of (due, payload)
SameEntries(w1, w2) == SeqToBag(Stored(w1)) = SeqToBag(Stored(w2))

\* two wheels with the same window hold the same entries bucket by bucket (the
\* order among entries of equal due time is not part of the comparison)
SameWheel(w1, w2) ==
  /\ w1.now = w2.now
  /\ w1.cursor = w2.cursor
  /\ \A b \in Buckets : SeqToBag(w1.items[b]) = SeqToBag(w2.items[b])

DrainCommitted ==
  /\ [](iter.live => (Wheel = iter.wheel /\ DueBy(Wheel, iter.until) = {}))
  /\ [][iter.live => (items' = items /\ now' = now /\ cursor' = cursor)]_vars

\* C9 witness: a partial drain has returned, the iterator has yielded one element
\* and still holds another: the caller is in the middle of the iteration
DrainCommittedWitness ==
  /\ iter.live
  /\ iter.consumed = 1
  /\ iter.rest # <<>>
  /\ iter.until < now + span
  /\ Wheel = iter.wheel

\* C10: on the full drain (until >= now + span) the entries are yielded in
\* non-decreasing order of due time.
FullDrainTimeOrdered ==
  Idle =>
    \A until \in Times :
      until >= now + span =>
        \A o \in take_until(Wheel, until) : TimeOrdered(o.taken)

\* the ticks add(time, _) needs before time is inside the window: the least k
\* with time < now + k * Granularity + span
TicksNeeded(w, time) ==
  IF time < w.now + span THEN 0 ELSE (time - w.now - span) \div Granularity + 1

\* the buckets the cursor leaves in k ticks
Vacated(w, k) == {(w.cursor + i) % Capacity : i \in 0..(k - 1)}

\* C11: add never drops a stored entry. An add(time, item) that has to fast-jump
\* while a bucket is not empty, or to tick past a bucket that is not empty,
\* panics; an add that completes leaves stored every entry that was stored, and
\* the new one.
AddKeepsStored ==
  Idle =>
    \A time \in Times, item \in Payloads :
      \A o \in add(Wheel, time, item) :
        /\ (time >= now + span + short_span /\ StoredCount(Wheel) > 0) => o.panic
        /\ (/\ time >= now
            /\ time < now + span + short_span
            /\ \E b \in Vacated(Wheel, TicksNeeded(Wheel, time)) : items[b] # <<>>)
             => o.panic
        /\ ~o.panic =>
             SeqToBag(Stored(o.w)) =
               SeqToBag(Stored(Wheel)) (+) SetToBag({TimerItem(time, item)})

\* C11 witness: with an entry stored away from the cursor, one add ticks past
\* the empty cursor bucket and completes, another would have to fast-jump and
\* panics; and the stored entry is kept by the first
AddKeepsStoredWitness ==
  /\ Idle
  /\ StoredCount(Wheel) > 0
  /\ items[cursor] = <<>>
  /\ \E time \in Times, item \in Payloads :
       \E o \in add(Wheel, time, item) :
         ~o.panic /\ o.ticks >= 1 /\ StoredCount(o.w) = StoredCount(Wheel) + 1
  /\ \E time \in Times, item \in Payloads :
       /\ time >= now + span + short_span
       /\ \A o \in add(Wheel, time, item) : o.panic

\* the instants from now to one bucket past the fast-jump threshold of add: in
\* the window, one to Capacity - 1 ticks away, and beyond the threshold
AddTimes(w) == w.now..(w.now + span + short_span + Granularity)

\* C12: on a wheel that stores nothing, add(time, x) completes for every
\* time >= now (in the window, reached by ticks, or by the fast jump); after it
\* next_time() is Some(time) and take_until(time) completes and yields [x].
AddOnEmpty ==
  (Idle /\ StoredCount(Wheel) = 0) =>
    \A time \in AddTimes(Wheel), x \in Payloads :
      \A o \in add(Wheel, time, x) :
        /\ ~o.panic
        /\ next_time(o.w) = <<time>>
        /\ \A o2 \in take_until(o.w, time) :
             ~o2.panic /\ map_get_item(o2.taken) = <<x>> /\ StoredCount(o2.w) = 0

\* C12 witness: an empty wheel whose window has moved, from which one add
\* takes the fast jump and another ticks, each followed by a drain of [x]
AddOnEmptyWitness ==
  /\ Idle
  /\ StoredCount(Wheel) = 0
  /\ cursor # 0
  /\ \E time \in AddTimes(Wheel) :
       /\ time >= now + span + short_span
       /\ \E o \in add(Wheel, time, 1) :
            /\ o.w.now = time - short_span
            /\ o.w.cursor = 0
            /\ \E o2 \in take_until(o.w, time) : map_get_item(o2.taken) = <<1>>
  /\ \E time \in AddTimes(Wheel) :
       \E o \in add(Wheel, time, 1) :
         /\ o.ticks >= 1
         /\ \E o2 \in take_until(o.w, time) : map_get_item(o2.taken) = <<1>>

\* the bucket where an entry due at t belongs in wheel w
BucketOf(w, t) == (w.cursor + ((t - w.now) \div Granularity)) % Capacity

\* C13: after every operation that completes, every stored entry due at t has
\* now <= t and sits in bucket (cursor + floor((t - now) / granularity)) mod
\* capacity.
EntriesPlaced ==
  ~failed =>
    \A b \in Buckets : \A k \in 0..(Len(items[b]) - 1) :
      /\ now <= At(items[b], k).time
      /\ b = BucketOf(Wheel, At(items[b], k).time)

\* C13 witness: the window has wrapped: after ticks the cursor is not at 0, and
\* of two entries in different buckets the later one sits at the lower index
EntriesPlacedWitness ==
  /\ ~failed
  /\ cursor # 0
  /\ now > 0
  /\ \E b, c \in Buckets :
       /\ b < c
       /\ items[b] # <<>>
       /\ items[c] # <<>>
       /\ At(items[b], 0).time > At(items[c], 0).time

\* C14: after every operation the entries of every bucket are in non-decreasing
\* order of due time.
BucketsSorted ==
  ~failed => \A b \in Buckets : TimeOrdered(items[b])

\* C14 witness: in a moved window the cursor bucket holds two entries with
\* different due times, in order, and a take_until between the two splits it:
\* the first is yielded, the second stays as the whole bucket
BucketsSortedWitness ==
  /\ Idle
  /\ cursor # 0
  /\ Len(items[cursor]) = 2
  /\ At(items[cursor], 0).time < At(items[cursor], 1).time
  /\ \E o \in take_until(Wheel, At(items[cursor], 0).time) :
       /\ o.taken = <<At(items[cursor], 0)>>
       /\ o.w.items[cursor] = <<At(items[cursor], 1)>>

\* C15: take_next(until) never fires the assertion of tick, from any reachable
\* wheel and for any until: each time its loop ticks the cursor bucket is empty.
TakeNextNoPanic ==
  Idle =>
    \A until \in Times :
      \A o \in take_next(Wheel, until) : ~o.panic

\* C15 witness: the wheel stores entries, the cursor bucket holds one that is
\* not yet due at until, and take_next(until) leaves it alone without a tick;
\* and a later until makes the loop pop it and then tick past the emptied bucket
TakeNextNoPanicWitness ==
  /\ Idle
  /\ cursor # 0
  /\ Len(items[cursor]) = 1
  /\ \E until \in Times :
       /\ until >= now
       /\ until < At(items[cursor], 0).time
       /\ \A o \in take_next(Wheel, until) : o.ret = <<>> /\ o.ticks = 0 /\ ~o.panic
  /\ \E until \in Times :
       \E o \in take_next(Wheel, until) :
         /\ o.ret # <<>>
         /\ \E o2 \in take_next(o.w, until) : o2.ticks >= 1 /\ ~o2.panic

\* C16: in a single call of add, take_next or take_until the number of ticks
\* is at most capacity, for every reachable wheel and every time argument.
TicksBoundedByCapacity ==
  Idle =>
    \A time \in Times :
      /\ \A item \in Payloads : \A o \in add(Wheel, time, item) : o.ticks <= Capacity
      /\ \A o \in take_next(Wheel, time) : o.ticks <= Capacity
      /\ \A o \in take_until(Wheel, time) : o.ticks <= Capacity

\* C17: on the partial drain (now <= until < now + span) the entries are
\* yielded in non-decreasing order of due time: the whole buckets in rotation
\* order from the old cursor, then the head of the boundary bucket.
PartialDrainTimeOrdered ==
  Idle =>
    \A until \in Times :
      (now <= until /\ until < now + span) =>
        \A o \in take_until(Wheel, until) :
          /\ TimeOrdered(o.taken)
          /\ \E at \in 0..Len(items[o.w.cursor]) :
               o.taken =
                 flatten([i \in 1..o.ticks |-> items[(cursor + i - 1) % Capacity]])
                   \o SubSeq(items[o.w.cursor], 1, at)

\* C17 witness: the window has wrapped, and a partial drain yields the entry of
\* the cursor bucket and then an earlier-indexed bucket's entry, which is later
PartialDrainTimeOrderedWitness ==
  /\ Idle
  /\ cursor # 0
  /\ \E until \in Times :
       /\ now <= until
       /\ until < now + span
       /\ \E o \in take_until(Wheel, until) :
            /\ o.ticks >= 1
            /\ o.w.cursor < cursor
            /\ Len(o.taken) = 2
            /\ o.taken[1] = At(items[cursor], 0)
            /\ o.taken[2] = At(items[o.w.cursor], 0)
            /\ o.taken[1].time < o.taken[2].time

\* the instants of the span that follows the window of w
BeyondWindow(w) == (w.now + span)..(w.now + span + span)

NowNeverDecreases ==
  /\ [][now' >= now]_vars
  /\ [](~failed =>
         /\ tick(Wheel).w.now >= now
         /\ \A time \in AddTimes(Wheel) : fast_jump(Wheel, time).w.now >= now
         /\ \A until \in Times :
              until >= now + span => take_until_full(Wheel, until).w.now >= now)
  /\ [](Idle =>
         \A time \in Times, selector \in Selectors :
           \A o \in remove(Wheel, time, selector) :
             o.w.now = now /\ o.w.cursor = cursor)

\* C19 witness: now has been reset to an instant off the bucket grid (by a
\* fast jump or a full drain) and ticks have moved it on from there
NowNeverDecreasesWitness ==
  /\ ~failed
  /\ now > span
  /\ now % Granularity # 0
  /\ cursor # 0

\* C20: after take_until(until) with until >= now the clock is at the bucket
\* that contains until: now' <= until < now' + granularity, with now' = until
\* and cursor' = 0 on the full drain; the cursor bucket is the bucket of until,
\* which on the partial drain is the bucket until had in the wheel before.
TakeUntilAdvancesClock ==
  Idle =>
    \A until \in Times : until >= now =>
      \A o \in take_until(Wheel, until) :
        /\ ~o.panic
        /\ o.w.now <= until
        /\ until < o.w.now + Granularity
        /\ BucketOf(o.w, until) = o.w.cursor
        /\ until >= now + span => (o.w.now = until /\ o.w.cursor = 0)
        /\ until < now + span =>
             /\ o.w.cursor = BucketOf(Wheel, until)
             /\ o.w.now = now + o.ticks * Granularity

\* C20 witness: a partial drain from a moved window ticks to a bucket of lower
\* index, until falls inside that bucket's interval and not on its start, and
\* the drain yields an entry
TakeUntilAdvancesClockWitness ==
  /\ Idle
  /\ cursor # 0
  /\ \E until \in Times :
       /\ until >= now
       /\ until < now + span
       /\ \E o \in take_until(Wheel, until) :
            /\ o.ticks >= 1
            /\ o.w.cursor < cursor
            /\ o.w.now < until
            /\ o.taken # <<>>

====
